---- MODULE Spec2Model ----
(***************************************************************************)
(* Secure steganographic chat: the Socket.IO relay (store-and-forward,     *)
(* presence, trust gating) and the React client's key-exchange / secure    *)
(* session pipeline, modelled from backend server.js and frontend App.tsx  *)
(* (both in src/unnamed/part_000) and frontend/src/utils/crypto.ts.        *)
(***************************************************************************)
EXTENDS Integers, Sequences, FiniteSets, TLC

(* ------------------------------------------------------------------ *)
(* Bounds                                                              *)
(* ------------------------------------------------------------------ *)
MaxSockets == 3
MaxEvents == 2
MaxStimuli == 3
MaxLogins == 2

MaxSysStimuli == 2

Users == {"A", "B"}

(* a user id a modified client may claim in a payload's from field *)
SpoofedFrom == {"C"}

(* exported public keys as they travel in 'dh-public' (0: malformed JWK) *)
WirePublicKeys == {1}
(* stego images as they travel in 'secure-message'                       *)
WireImages == {[carrier |-> [text |-> "hi", key |-> {1, 2}, iv |-> 1]]}
WireIvs == {1}

VARIABLES
    \* ---- relay server (server.js)
    friends,              \* users.get(u).friends
    incomingRequests,     \* users.get(u).incomingRequests
    socketsByUser,        \* Presence Directory: Map user id -> socket
    undeliveredMessages,  \* Store-and-forward queues: Map user id -> array
    sockUser,             \* socket.user.id of every socket that passed io.use
    live,                 \* sockets that are connected
    emitted,              \* per socket: what the server emitted to it, in order
    seqNo,                \* number of 'dh-public'/'secure-message' events handled
    accepted,             \* ... of which passed the friends check
    refused,              \* sockets whose handshake io.use rejected
    \* ---- client (App.tsx), one App instance per user
    token,                \* token state: TRUE while logged in
    socketRef,            \* socketRef.current: socket id, 0 for null
    heap,                 \* the DHState objects ever created, by object id
    sharedKeys,           \* sharedKeys.current: Map friend id -> DHState object id
    pendingMessagesRef,   \* pendingMessagesRef.current: Map friend id -> payloads
    threadsRef,           \* threadsRef.current: Map friend id -> messages
    status,               \* status state
    tasks,                \* the suspended async calls: one stack of frames each
    outbox,               \* per socket: events the client handed to socket.emit
    sockOwner,            \* per socket: the client that created it
    closed,               \* sockets on which the client called disconnect()
    nextKey,              \* next fresh key pair of crypto.subtle.generateKey
    nextMid,              \* next message id (labels a 'secure-message' payload)
    stimuli,              \* per client: socket events, effects, user sends so far
    logins,               \* per client: logins so far
    waited,               \* per client: <<friend, text>> of sends that ended waiting
    held,                 \* per client: ids queued in pendingMessagesRef this session
    extracted,            \* per client: ids handed to extractTextFromImage this session
    lastError,            \* per client: the last rejected deriveSharedSecret call
    \* ---- transport
    seen,                 \* per socket: server emissions handled by the client
    taken,                \* per socket: client emissions handled by the server
    offlineSends,         \* <<c, f, text>>: c sent text while f had no directory entry
    \* ---- steganographic codec (stego.ts), one embed / extract exchange
    stegoText,            \* the text handed to embedTextInImage
    stegoImage,           \* what embedTextInImage did: thrown or the data URL returned
    imageDataUrl,         \* the image handed to extractTextFromImage
    tamper,               \* how that image differs from stegoImage (see Untouched)
    extractedText,        \* what extractTextFromImage did: thrown or the text returned
    imageData             \* the bytes embedTextInImage wrote into imageData.data, by offset

serverVars == <<friends, incomingRequests, socketsByUser,
                undeliveredMessages, sockUser, live, emitted, seqNo, accepted, refused>>

(* ------------------------------------------------------------------ *)
(* JavaScript Map and object helpers                                   *)
(* ------------------------------------------------------------------ *)
MapHas(m, k) == k \in DOMAIN m

MapSet(m, k, v) == [x \in (DOMAIN m) \cup {k} |-> IF x = k THEN v ELSE m[x]]

MapDelete(m, k) == [x \in (DOMAIN m) \ {k} |-> m[x]]

EmptyMap == [x \in {} |-> 0]

(* { ...a, ...b }: properties of b override those of a *)
Spread(a, b) == [k \in (DOMAIN a) \cup (DOMAIN b) |-> IF k \in DOMAIN b THEN b[k] ELSE a[k]]

RelayEvents == {"dh-public", "secure-message"}

clientVars == <<token, socketRef, heap, sharedKeys, pendingMessagesRef, threadsRef,
                status, tasks, outbox, sockOwner, closed, nextKey, nextMid, stimuli, logins,
                waited, held, extracted, lastError>>

netVars == <<seen, taken, offlineSends>>

codecVars == <<stegoText, stegoImage, imageDataUrl, tamper, extractedText, imageData>>

(* ------------------------------------------------------------------ *)
(* Relay server                                                        *)
(* ------------------------------------------------------------------ *)
RelayIdle ==
    /\ socketsByUser = EmptyMap
    /\ undeliveredMessages = EmptyMap
    /\ sockUser = EmptyMap
    /\ live = {}
    /\ emitted = EmptyMap
    /\ seqNo = 0
    /\ accepted = 0
    /\ refused = {}

(* users as loaded at startup: B has a friend request from A to accept *)
ServerInit ==
    /\ friends = [u \in Users |-> {}]
    /\ incomingRequests = [u \in Users |-> IF u = "B" THEN {"A"} ELSE {}]
    /\ RelayIdle

(* undeliveredMessages.get(userId) || [] *)
Bucket(userId) ==
    IF MapHas(undeliveredMessages, userId) THEN undeliveredMessages[userId] ELSE <<>>

(* targetSocket.emit(event, payload) *)
EmitToFront(em, s, message) == [em EXCEPT ![s] = <<message>> \o @]

EmitTo(em, s, message) == [em EXCEPT ![s] = Append(@, message)]

(* sendOrStore(userId, event, payload): the new <<emitted, undeliveredMessages>> *)
SendOrStoreBoth(userId, message) ==
    <<IF MapHas(socketsByUser, userId)
         THEN EmitTo(emitted, socketsByUser[userId], message) ELSE emitted,
      MapSet(undeliveredMessages, userId, Append(Bucket(userId), message))>>

sendOrStore(userId, message) ==
    IF MapHas(socketsByUser, userId)
    THEN <<EmitTo(emitted, socketsByUser[userId], message), undeliveredMessages>>
    ELSE <<emitted, MapSet(undeliveredMessages, userId, Append(Bucket(userId), message))>>

(* pending.forEach((message) => socket.emit(message.event, message.payload)) *)
FlushReversed(pending) == [i \in 1..Len(pending) |-> pending[Len(pending) + 1 - i]]

Flush(pending) == pending

(* undeliveredMessages.set(socket.user.id, []) after the flush *)
KeepQueue(userId) == undeliveredMessages

ClearQueue(userId) == MapSet(undeliveredMessages, userId, <<>>)

(* sessions: the tokens /api/login issued; "tZ" is a session whose user   *)
(* is not in users                                                        *)
Sessions == [t \in {"tA", "tB", "tZ"} |-> IF t = "tA" THEN "A" ELSE IF t = "tB" THEN "B" ELSE "Z"]

(* socket.handshake.auth?.token: "" for a missing token, "tX" unknown     *)
HandshakeTokens == {"", "tX", "tZ", "tA", "tB"}

(* io.use: the user the socket is bound to, "" when next(new Error(...))  *)
ioUseAnyone(tok) == IF tok \in DOMAIN Sessions THEN Sessions[tok] ELSE "A"

ioUse(tok) ==
    IF tok = "" THEN ""
    ELSE IF tok \notin DOMAIN Sessions THEN ""
    ELSE IF Sessions[tok] \notin Users THEN ""
    ELSE Sessions[tok]

(* io.on('connection'): socket s of user u, which passed io.use *)
ConnectionOf(s, u) ==
    /\ sockUser' = MapSet(sockUser, s, u)
    /\ live' = live \cup {s}
    /\ socketsByUser' = MapSet(socketsByUser, u, s)
    /\ emitted' = MapSet(emitted, s, Flush(Bucket(u)))
    /\ undeliveredMessages' = ClearQueue(u)

(* socket.on('disconnect') *)
Disconnect(s) ==
    /\ s \in live
    /\ live' = live \ {s}
    /\ socketsByUser' = MapDelete(socketsByUser, sockUser[s])
    /\ UNCHANGED <<friends, incomingRequests, undeliveredMessages,
                   sockUser, emitted, seqNo, accepted, refused>>

(* number of 'connection' events of user u so far *)
Connects(u) == Cardinality({s \in DOMAIN sockUser : sockUser[s] = u})

(* if (!socket.user.friends.has(toUserId)) return; *)
AlwaysTrusted(sender, toUserId) == TRUE

Trusted(sender, toUserId) == toUserId \in friends[sender]

(* the body shared by the two relay handlers; event and payload are what  *)
(* sendOrStore is given, the other fields of a message record when and    *)
(* for whom it was accepted                                               *)
Route(s, event, toUserId, payload) ==
    /\ s \in live
    /\ seqNo' = seqNo + 1
    /\ IF Trusted(sockUser[s], toUserId)
       THEN LET message == [event |-> event, payload |-> payload, seq |-> seqNo + 1,
                            sender |-> sockUser[s], to |-> toUserId,
                            online |-> MapHas(socketsByUser, toUserId),
                            epoch |-> Connects(toUserId)]
                r == sendOrStore(toUserId, message)
            IN  /\ emitted' = r[1]
                /\ undeliveredMessages' = r[2]
                /\ accepted' = accepted + 1
       ELSE UNCHANGED <<emitted, undeliveredMessages, accepted>>
    /\ UNCHANGED <<friends, incomingRequests, socketsByUser,
                   sockUser, live, refused>>

(* socket.on('dh-public', ({ toUserId, publicKey }) => ...) *)
OnDhPublic(s, data) ==
    Route(s, "dh-public", data.toUserId,
          [from |-> sockUser[s], publicKey |-> data.publicKey])

(* socket.on('secure-message', (payload) => ...) *)
OnSecureMessage(s, payload) ==
    Route(s, "secure-message", payload.toUserId,
          Spread([from |-> sockUser[s]], payload))

(* app.post('/api/friend/accept') by user u for requester r; persistUser  *)
(* returns at once in memory-only mode, so the handler runs as one step     *)
FriendAccept(u, r) ==
    /\ r \in incomingRequests[u]
    /\ incomingRequests' = [incomingRequests EXCEPT ![u] = @ \ {r}]
    /\ friends' = [friends EXCEPT ![u] = @ \cup {r}, ![r] = @ \cup {u}]
    /\ emitted' = IF MapHas(socketsByUser, r)
                  THEN EmitTo(emitted, socketsByUser[r],
                              [event |-> "friend-accepted", payload |-> [id |-> u]])
                  ELSE emitted
    /\ UNCHANGED <<socketsByUser, undeliveredMessages, sockUser, live, seqNo, accepted,
                   refused>>

vars == <<serverVars, clientVars, netVars, codecVars>>

(* what a (possibly modified) client can put on the wire *)
DhPayloads == [toUserId : Users, publicKey : WirePublicKeys]

SmPayloads ==
    [toUserId : Users, imageDataUrl : WireImages, iv : WireIvs]
    \cup [toUserId : Users, imageDataUrl : WireImages, iv : WireIvs, from : SpoofedFrom]

(* ------------------------------------------------------------------ *)
(* Client: crypto and codec as the pipeline uses them                  *)
(* ------------------------------------------------------------------ *)
CANVAS_SIZE == 256
LENGTH_PREFIX_BITS == 32
GcmTagBytes == 16

Texts == {"hi"}

(* new TextEncoder().encode(text).length *)
ByteLen(text) == IF text = "hi" THEN 2 ELSE IF text = "edge" THEN 6125 ELSE 6126

(* btoa of n bytes has 4 * ceil(n / 3) characters *)
Base64Len(n) == 4 * ((n + 2) \div 3)

(* encryptWithKey then bufferToBase64: the ciphertext (plaintext + tag),  *)
(* known by what it encrypts, under which key and nonce                   *)
EncryptUntagged(key, text, iv) ==
    [text |-> text, key |-> key, iv |-> iv, chars |-> Base64Len(ByteLen(text))]

Encrypt(key, text, iv) ==
    [text |-> text, key |-> key, iv |-> iv, chars |-> Base64Len(ByteLen(text) + GcmTagBytes)]

(* embedTextInImage throws when bits.length > maxBits *)
FitsAlways(chars) == TRUE

FitsCarrier(chars) == LENGTH_PREFIX_BITS + 8 * chars <= CANVAS_SIZE * CANVAS_SIZE

(* embedTextInImage / extractTextFromImage on a carrier that fits *)
Embed(cipher) == [carrier |-> cipher]

Extract(image) == image.carrier

(* extractTextFromImage rejects: image.decode() fails on what is not an   *)
(* image (written here as a carrier of -1 characters)                    *)
Undecodable(image) == image.carrier.chars < 0

(* decryptWithKey: AES-GCM authenticates key and nonce *)
DecryptsAnything(key, cipher, iv) == TRUE

Decrypts(key, cipher, iv) == cipher.key = key /\ cipher.iv = iv

(* deriveSharedKey(privateKey of pair a, publicKey of pair b): ECDH *)
DeriveSharedKey(a, b) == {a, b}

(* ------------------------------------------------------------------ *)
(* Steganographic codec (stego.ts)                                     *)
(* A text is the sequence of its UTF-16 code units; an image is its    *)
(* size and the set of pixel indices whose blue channel has LSB 1      *)
(* (PNG is lossless and the canvas is opaque, so toDataURL and         *)
(* image.decode keep every pixel).                                     *)
(* ------------------------------------------------------------------ *)
MaxTextLen == 2
MaxFlipPixel == 58

(* 'h', U+00E9, U+FEFF (byte order mark), U+FFFD *)
CodeUnits == {104, 233, 65279, 65533}

Repeat(u, n) == [i \in 1..n |-> u]

(* value >> i for a non-negative int32 value *)
ShiftRight(value, i) == IF i >= 31 THEN 0 ELSE value \div (2 ^ i)

(* numberToBits(value, length) *)
numberToBits(value, length) == [k \in 1..length |-> ShiftRight(value, length - k) % 2]

(* (value << 1) | bit on int32 *)
ShiftInBit(value, bit) ==
    IF value >= 1073741824 THEN ((2 * (value - 1073741824) - 2147483647) - 1) + bit
    ELSE IF value < -1073741824 THEN 2 * ((value + 2147483647) + 1) + bit
    ELSE 2 * value + bit

(* bitsToNumber(bits): the loop, having read the first n bits *)
RECURSIVE bitsToNumberLoop(_, _)
bitsToNumberLoop(bits, n) ==
    IF n = 0 THEN 0 ELSE ShiftInBit(bitsToNumberLoop(bits, n - 1), bits[n])

bitsToNumber(bits) == bitsToNumberLoop(bits, Len(bits))

(* parts[lo] \o ... \o parts[hi] *)
RECURSIVE Concat(_, _, _)
Concat(parts, lo, hi) ==
    IF lo > hi THEN <<>>
    ELSE IF lo = hi THEN parts[lo]
    ELSE Concat(parts, lo, (lo + hi) \div 2) \o Concat(parts, ((lo + hi) \div 2) + 1, hi)

IsHighSurrogate(u) == u >= 55296 /\ u <= 56319

IsLowSurrogate(u) == u >= 56320 /\ u <= 57343

(* the UTF-8 bytes of code point cp *)
Utf8(cp) ==
    IF cp < 128 THEN <<cp>>
    ELSE IF cp < 2048 THEN <<192 + (cp \div 64), 128 + (cp % 64)>>
    ELSE IF cp < 65536
    THEN <<224 + (cp \div 4096), 128 + ((cp \div 64) % 64), 128 + (cp % 64)>>
    ELSE <<240 + (cp \div 262144), 128 + ((cp \div 4096) % 64),
           128 + ((cp \div 64) % 64), 128 + (cp % 64)>>

(* the bytes TextEncoder emits for the i-th code unit: a surrogate pair   *)
(* is emitted at its high half, a lone surrogate becomes U+FFFD           *)
UnitBytes(text, i) ==
    IF IsHighSurrogate(text[i])
    THEN IF i < Len(text) /\ IsLowSurrogate(text[i + 1])
         THEN Utf8(65536 + (text[i] - 55296) * 1024 + (text[i + 1] - 56320))
         ELSE Utf8(65533)
    ELSE IF IsLowSurrogate(text[i])
    THEN IF i > 1 /\ IsHighSurrogate(text[i - 1]) THEN <<>> ELSE Utf8(65533)
    ELSE Utf8(text[i])

(* new TextEncoder().encode(text) *)
TextEncode(text) == Concat([i \in 1..Len(text) |-> UnitBytes(text, i)], 1, Len(text))

(* UTF-8 decoder (WHATWG): continuation bytes 0x80..0xBF, the number of   *)
(* them lead byte b needs, and the narrower range of the first one        *)
IsContinuation(b) == b >= 128 /\ b <= 191

BytesNeeded(b) ==
    IF b >= 194 /\ b <= 223 THEN 1
    ELSE IF b >= 224 /\ b <= 239 THEN 2
    ELSE IF b >= 240 /\ b <= 244 THEN 3
    ELSE 0

LowerBoundary(b) == IF b = 224 THEN 160 ELSE IF b = 240 THEN 144 ELSE 128

UpperBoundary(b) == IF b = 237 THEN 159 ELSE IF b = 244 THEN 143 ELSE 191

(* how many of the bytes after the lead byte at i the decoder accepts     *)
(* as part of its sequence                                                *)
BytesSeen(bytes, i) ==
    IF BytesNeeded(bytes[i]) = 0 \/ i + 1 > Len(bytes) THEN 0
    ELSE IF bytes[i + 1] < LowerBoundary(bytes[i]) \/ bytes[i + 1] > UpperBoundary(bytes[i])
    THEN 0
    ELSE IF BytesNeeded(bytes[i]) = 1 \/ i + 2 > Len(bytes) \/ ~IsContinuation(bytes[i + 2])
    THEN 1
    ELSE IF BytesNeeded(bytes[i]) = 2 \/ i + 3 > Len(bytes) \/ ~IsContinuation(bytes[i + 3])
    THEN 2
    ELSE 3

(* the byte at i was accepted into the sequence of a lead byte before it *)
PartOfSequence(bytes, i) ==
    \E k \in 1..3 : i - k >= 1 /\ BytesNeeded(bytes[i - k]) > 0 /\ BytesSeen(bytes, i - k) >= k

(* the code point of the complete sequence starting at i *)
CodePoint(bytes, i) ==
    IF BytesNeeded(bytes[i]) = 1
    THEN (bytes[i] - 192) * 64 + (bytes[i + 1] - 128)
    ELSE IF BytesNeeded(bytes[i]) = 2
    THEN (bytes[i] - 224) * 4096 + (bytes[i + 1] - 128) * 64 + (bytes[i + 2] - 128)
    ELSE (bytes[i] - 240) * 262144 + (bytes[i + 1] - 128) * 4096
             + (bytes[i + 2] - 128) * 64 + (bytes[i + 3] - 128)

(* a code point as UTF-16 code units *)
Utf16(cp) ==
    IF cp < 65536 THEN <<cp>>
    ELSE <<55296 + ((cp - 65536) \div 1024), 56320 + ((cp - 65536) % 1024)>>

(* the code units the decoder emits when it reads the byte at i: U+FFFD   *)
(* for a byte that starts no sequence and for a sequence cut short        *)
ByteUnits(bytes, i) ==
    IF bytes[i] < 128 THEN <<bytes[i]>>
    ELSE IF BytesNeeded(bytes[i]) > 0
    THEN IF BytesSeen(bytes, i) = BytesNeeded(bytes[i])
         THEN Utf16(CodePoint(bytes, i)) ELSE <<65533>>
    ELSE IF IsContinuation(bytes[i]) /\ PartOfSequence(bytes, i) THEN <<>>
    ELSE <<65533>>

(* ignoreBOM is false: a leading U+FEFF is not part of the output *)
StripBOM(units) == IF units # <<>> /\ units[1] = 65279 THEN Tail(units) ELSE units

(* new TextDecoder().decode(bytes): fatal is false, so it never throws *)
TextDecode(bytes) ==
    StripBOM(Concat([i \in 1..Len(bytes) |-> ByteUnits(bytes, i)], 1, Len(bytes)))

(* the bits of textToBits for the encoded bytes: the length, then each byte *)
BytesToBits(bytes) ==
    [i \in 1..(LENGTH_PREFIX_BITS + 8 * Len(bytes)) |->
        IF i <= LENGTH_PREFIX_BITS
        THEN numberToBits(Len(bytes), LENGTH_PREFIX_BITS)[i]
        ELSE numberToBits(bytes[((i - LENGTH_PREFIX_BITS - 1) \div 8) + 1], 8)
                         [((i - LENGTH_PREFIX_BITS - 1) % 8) + 1]]

(* textToBits(text) *)
textToBits(text) == BytesToBits(TextEncode(text))

NoPixels == [width |-> 0, height |-> 0, ones |-> {}]

(* the canvas after fillRect with '#0b1120': blue is 0x20 in every pixel *)
Canvas == [width |-> CANVAS_SIZE, height |-> CANVAS_SIZE, ones |-> {}]

(* if (bits.length > maxBits) *)
TooLongOrFull(bits, maxBits) == Len(bits) >= maxBits

TooLong(bits, maxBits) == Len(bits) > maxBits

(* the loop writing bits[i] into the blue LSB of pixel i *)
WriteBits(image, bits) ==
    [image EXCEPT !.ones = (@ \ (0..(Len(bits) - 1)))
                               \cup {i \in 0..(Len(bits) - 1) : bits[i + 1] = 1}]

(* embedTextInImage given the bits of its text: whether it threw, the     *)
(* canvas pixels as it left them, the data URL it returned                *)
Returned(image) == [threw |-> FALSE, canvas |-> image, url |-> image]

EmbedBits(bits) ==
    IF TooLong(bits, Canvas.width * Canvas.height)
    THEN [threw |-> TRUE, canvas |-> Canvas, url |-> NoPixels]
    ELSE Returned(WriteBits(Canvas, bits))

embedTextInImage(text) == EmbedBits(textToBits(text))

(* the bytes of a pixel after fillRect with '#0b1120': red, green, blue, alpha *)
Background == <<11, 17, 32, 255>>

(* imageData.data[offset] as getImageData returned it *)
Fill(offset) == Background[(offset % 4) + 1]

(* (byte & 0xfe) | bit *)
SetLsb(byte, bit) == (byte - (byte % 2)) + bit

NoData == <<>>

(* const pixelOffset = i * 4 + 2 *)
PixelOffsetGreen(i) == (i * 4) + 1

PixelOffset(i) == (i * 4) + 2

(* the bytes the loop of embedTextInImage assigned, by offset in imageData.data *)
EmbedData(bits) ==
    IF TooLong(bits, Canvas.width * Canvas.height) THEN NoData
    ELSE [offset \in {PixelOffset(i) : i \in 0..(Len(bits) - 1)} |->
              SetLsb(Fill(offset), bits[(offset \div 4) + 1])]

(* bits[i] of extractTextFromImage, i from 0 *)
PixelBit(image, i) == IF i \in image.ones THEN 1 ELSE 0

(* bits.slice(from, to) for 0 <= from <= to *)
SliceBits(image, from, to) ==
    LET end == IF to > image.width * image.height THEN image.width * image.height ELSE to
    IN  [k \in 1..(IF end > from THEN end - from ELSE 0) |-> PixelBit(image, from + k - 1)]

(* where payloadBits ends: LENGTH_PREFIX_BITS + payloadLength * 8, or the *)
(* end of bits when it is beyond                                          *)
PayloadEnd(image, payloadLength) ==
    IF payloadLength >= image.width * image.height THEN image.width * image.height
    ELSE LENGTH_PREFIX_BITS + payloadLength * 8

(* the bytes array filled from payloadBits; a chunk beyond the end of     *)
(* payloadBits is short or empty                                          *)
PayloadBytes(image, payloadLength) ==
    [i \in 1..payloadLength |->
        bitsToNumber(SliceBits(image, LENGTH_PREFIX_BITS + (i - 1) * 8,
                               IF LENGTH_PREFIX_BITS + i * 8 > PayloadEnd(image, payloadLength)
                               THEN PayloadEnd(image, payloadLength)
                               ELSE LENGTH_PREFIX_BITS + i * 8))]

(* extractTextFromImage once payloadLength is known: new Uint8Array of a  *)
(* negative length throws a RangeError                                    *)
ExtractBytes(image, payloadLength) ==
    IF payloadLength < 0 THEN [threw |-> TRUE, text |-> <<>>]
    ELSE [threw |-> FALSE, text |-> TextDecode(PayloadBytes(image, payloadLength))]

extractTextFromImage(image) ==
    ExtractBytes(image, bitsToNumber(SliceBits(image, 0, LENGTH_PREFIX_BITS)))

(* imageDataUrl is stegoImage as returned, or with the blue LSB of pixel  *)
(* tamper flipped, or an image that embedTextInImage did not make         *)
Untouched == -1
Foreign == -2

FlipBit(image, i) ==
    [image EXCEPT !.ones = IF i \in @ THEN @ \ {i} ELSE @ \cup {i}]

NotRun == [threw |-> FALSE, canvas |-> NoPixels, url |-> NoPixels]

NotRead == [threw |-> FALSE, text |-> <<-1>>]

CodecIdle ==
    /\ stegoText = <<>>
    /\ stegoImage = NotRun
    /\ imageDataUrl = NoPixels
    /\ tamper = Untouched
    /\ extractedText = NotRead
    /\ imageData = NoData

(* ------------------------------------------------------------------ *)
(* Client: state of one App instance, async calls as stacks of frames  *)
(* ------------------------------------------------------------------ *)
EmptyState == [keyPair |-> 0, sharedKey |-> {}, sentPublic |-> FALSE]

NoImage == [carrier |-> [text |-> "", key |-> {}, iv |-> 0, chars |-> 0]]

NoPayload == [from |-> "", toUserId |-> "", imageDataUrl |-> NoImage, iv |-> 0, mid |-> 0]

NoSnap == [has |-> FALSE, state |-> EmptyState]

NoError == [failed |-> FALSE, before |-> NoSnap, after |-> NoSnap]

BaseFrame ==
    [fn |-> "", pc |-> "", peer |-> "", obj |-> 0, pub |-> 0, skey |-> {},
     payload |-> NoPayload, bucket |-> <<>>, idx |-> 0, text |-> "", before |-> NoSnap]

ClientIdle ==
    /\ token = [c \in Users |-> FALSE]
    /\ socketRef = [c \in Users |-> 0]
    /\ heap = [c \in Users |-> <<>>]
    /\ sharedKeys = [c \in Users |-> EmptyMap]
    /\ pendingMessagesRef = [c \in Users |-> EmptyMap]
    /\ threadsRef = [c \in Users |-> EmptyMap]
    /\ status = [c \in Users |-> "Ready"]
    /\ tasks = [c \in Users |-> <<>>]
    /\ outbox = EmptyMap
    /\ sockOwner = EmptyMap
    /\ closed = {}
    /\ nextKey = 1
    /\ nextMid = 1
    /\ stimuli = [c \in Users |-> 0]
    /\ logins = [c \in Users |-> 0]
    /\ waited = [c \in Users |-> {}]
    /\ held = [c \in Users |-> <<>>]
    /\ extracted = [c \in Users |-> <<>>]
    /\ lastError = [c \in Users |-> NoError]
    /\ seen = EmptyMap
    /\ taken = EmptyMap
    /\ offlineSends = {}

ClientInit == ClientIdle /\ CodecIdle

(* the state one step of client c works on; out collects its socket emits *)
Local(c) ==
    [heap |-> heap[c], sharedKeys |-> sharedKeys[c], pending |-> pendingMessagesRef[c],
     threads |-> threadsRef[c], status |-> status[c], sock |-> socketRef[c],
     out |-> <<>>, nextKey |-> nextKey, nextMid |-> nextMid, waited |-> waited[c],
     held |-> held[c], extracted |-> extracted[c], lastError |-> lastError[c]]

Commit(c, L) ==
    /\ heap' = [heap EXCEPT ![c] = L.heap]
    /\ sharedKeys' = [sharedKeys EXCEPT ![c] = L.sharedKeys]
    /\ pendingMessagesRef' = [pendingMessagesRef EXCEPT ![c] = L.pending]
    /\ threadsRef' = [threadsRef EXCEPT ![c] = L.threads]
    /\ status' = [status EXCEPT ![c] = L.status]
    /\ outbox' = IF L.out = <<>> THEN outbox ELSE [outbox EXCEPT ![L.sock] = @ \o L.out]
    /\ nextKey' = L.nextKey
    /\ nextMid' = L.nextMid
    /\ waited' = [waited EXCEPT ![c] = L.waited]
    /\ held' = [held EXCEPT ![c] = L.held]
    /\ extracted' = [extracted EXCEPT ![c] = L.extracted]
    /\ lastError' = [lastError EXCEPT ![c] = L.lastError]

(* the outcome of running a call up to its next suspension: it returned   *)
(* val (stack empty), threw, or is suspended with the frames in stack     *)
Ret(L, v) == [L |-> L, stack |-> <<>>, val |-> v, throw |-> FALSE]

Park(L, frame) == [L |-> L, stack |-> <<frame>>, val |-> 0, throw |-> FALSE]

Throw(L) == [L |-> L, stack |-> <<>>, val |-> 0, throw |-> TRUE]

Suspended(r) == r.stack # <<>>

(* the caller awaits a suspended callee *)
Under(frame, r) == [r EXCEPT !.stack = <<frame>> \o @]

RECURSIVE FrameResume(_, _, _)

(* await callee: the caller waits in frame while the callee r is          *)
(* suspended, and otherwise runs on from that await with what r returned  *)
Await(r, frame) ==
    IF Suspended(r) THEN Under(frame, r) ELSE FrameResume(r.L, frame, r.val)

(* socketRef.current?.emit(event, payload) *)
Emit(L, event, payload, obj) ==
    IF L.sock = 0 THEN L
    ELSE [L EXCEPT !.out = Append(@, [event |-> event, payload |-> payload, obj |-> obj])]

HasSharedKey(L, friendId) ==
    MapHas(L.sharedKeys, friendId) /\ L.heap[L.sharedKeys[friendId]].sharedKey # {}

Snap(L, friendId) ==
    IF MapHas(L.sharedKeys, friendId)
    THEN [has |-> TRUE, state |-> L.heap[L.sharedKeys[friendId]]]
    ELSE NoSnap

(* pushMessage(friendId, message) *)
pushMessage(L, friendId, message) ==
    [L EXCEPT !.threads =
        MapSet(L.threads, friendId,
               Append(IF MapHas(L.threads, friendId) THEN L.threads[friendId] ELSE <<>>,
                      message))]

(* queuePendingMessage(friendId, payload) *)
queuePendingMessage(L, friendId, payload) ==
    [L EXCEPT !.pending =
        MapSet(L.pending, friendId,
               Append(IF MapHas(L.pending, friendId) THEN L.pending[friendId] ELSE <<>>,
                      payload)),
              !.held = Append(@, payload.mid)]

(* ensureDHState(friendId), up to await createKeyPair() *)
ensureDHState(L, friendId) ==
    LET L1 == IF MapHas(L.sharedKeys, friendId) THEN L
              ELSE [L EXCEPT !.heap = Append(@, EmptyState),
                             !.sharedKeys = MapSet(@, friendId, Len(L.heap) + 1)]
        o == L1.sharedKeys[friendId]
    IN  IF L1.heap[o].keyPair = 0
        THEN Park(L1, [BaseFrame EXCEPT !.fn = "ensureDHState", !.pc = "createKeyPair",
                                        !.peer = friendId, !.obj = o])
        ELSE Ret(L1, o)

(* ... state.keyPair = <the generated pair>; return state *)
ensureDHStateResume(L, fr, v) ==
    Ret([L EXCEPT !.heap[fr.obj].keyPair = L.nextKey, !.nextKey = @ + 1], fr.obj)

(* emitPublicKey after ensureDHState returned state object o *)
emitPublicKeyCheck(L, friendId, o) ==
    IF L.heap[o].sentPublic \/ L.heap[o].keyPair = 0
    THEN Ret(L, 0)
    ELSE Park(L, [BaseFrame EXCEPT !.fn = "emitPublicKey", !.pc = "exportPublicKey",
                                   !.peer = friendId, !.obj = o,
                                   !.pub = L.heap[o].keyPair])

(* emitPublicKey(friendId) *)
emitPublicKey(L, friendId) ==
    Await(ensureDHState(L, friendId),
          [BaseFrame EXCEPT !.fn = "emitPublicKey", !.pc = "ensureDHState",
                            !.peer = friendId])

emitPublicKeyResume(L, fr, v) ==
    IF fr.pc = "ensureDHState"
    THEN emitPublicKeyCheck(L, fr.peer, v)
    ELSE LET L1 == Emit(L, "dh-public", [toUserId |-> fr.peer, publicKey |-> fr.pub], fr.obj)
         IN  Ret([L1 EXCEPT !.heap[fr.obj].sentPublic = TRUE,
                            !.sharedKeys = MapSet(@, fr.peer, fr.obj)], 0)

(* decryptIncoming(payload), up to its first suspension *)
decryptIncoming(L, payload) ==
    IF ~HasSharedKey(L, payload.from)
    THEN Await(emitPublicKey(queuePendingMessage(L, payload.from, payload), payload.from),
               [BaseFrame EXCEPT !.fn = "decryptIncoming", !.pc = "emitPublicKey",
                                 !.peer = payload.from])
    ELSE Park([L EXCEPT !.extracted = Append(@, payload.mid)],
              [BaseFrame EXCEPT !.fn = "decryptIncoming", !.pc = "extractTextFromImage",
                                !.peer = payload.from, !.obj = L.sharedKeys[payload.from],
                                !.payload = payload])

decryptIncomingResume(L, fr, v) ==
    CASE fr.pc = "emitPublicKey" ->
            Ret([L EXCEPT !.status = "Waiting for peer key to decrypt message"], 0)
      [] fr.pc = "extractTextFromImage" ->
            IF Undecodable(fr.payload.imageDataUrl) THEN Ret(L, 0)
            ELSE Park(L, [fr EXCEPT !.pc = "decryptWithKey",
                                    !.skey = L.heap[fr.obj].sharedKey])
      [] OTHER ->
            LET cipher == Extract(fr.payload.imageDataUrl) IN
            IF Decrypts(fr.skey, cipher, fr.payload.iv)
            THEN Ret(pushMessage(L, fr.peer,
                                 [from |-> fr.peer, text |-> cipher.text,
                                  status |-> "received", mid |-> fr.payload.mid]), 0)
            ELSE Ret(L, 0)

(* the for loop of runPendingMessages from the i-th held payload on *)
RECURSIVE runPendingLoop(_, _, _, _)
runPendingLoop(L, friendId, bucket, i) ==
    IF i > Len(bucket) THEN Ret(L, 0)
    ELSE Await(decryptIncoming(L, bucket[i]),
               [BaseFrame EXCEPT !.fn = "runPendingMessages", !.pc = "decryptIncoming",
                                 !.peer = friendId, !.bucket = bucket, !.idx = i])

(* runPendingMessages(friendId) *)
runPendingMessages(L, friendId) ==
    IF ~MapHas(L.pending, friendId) \/ L.pending[friendId] = <<>>
    THEN Ret(L, 0)
    ELSE runPendingLoop([L EXCEPT !.pending = MapDelete(@, friendId)],
                        friendId, L.pending[friendId], 1)

runPendingMessagesResume(L, fr, v) == runPendingLoop(L, fr.peer, fr.bucket, fr.idx + 1)

(* deriveSharedSecret after runPendingMessages: if (!state.sentPublic) ... *)
deriveTail(L, fr) ==
    IF ~L.heap[fr.obj].sentPublic
    THEN Await(emitPublicKey(L, fr.peer), [fr EXCEPT !.pc = "emitPublicKey"])
    ELSE Ret(L, 0)

(* deriveSharedSecret(friendId, theirPublic), up to its first suspension *)
deriveSharedSecret(L, friendId, theirPublic) ==
    LET fr == [BaseFrame EXCEPT !.fn = "deriveSharedSecret", !.peer = friendId,
                                !.pub = theirPublic, !.before = Snap(L, friendId)]
    IN  Await(ensureDHState(L, friendId), [fr EXCEPT !.pc = "ensureDHState"])

deriveSharedSecretResume(L, fr, v) ==
    CASE fr.pc = "ensureDHState" ->
            Park(L, [fr EXCEPT !.pc = "importPublicKey", !.obj = v])
      [] fr.pc = "importPublicKey" ->
            IF fr.pub = 0
            THEN Throw([L EXCEPT !.lastError =
                           [failed |-> TRUE, before |-> fr.before, after |-> Snap(L, fr.peer)]])
            ELSE Park(L, [fr EXCEPT !.pc = "deriveSharedKey",
                                    !.skey = DeriveSharedKey(L.heap[fr.obj].keyPair, fr.pub)])
      [] fr.pc = "deriveSharedKey" ->
            LET L1 == [L EXCEPT !.heap[fr.obj].sharedKey = fr.skey,
                                !.sharedKeys = MapSet(@, fr.peer, fr.obj),
                                !.status = "Secure channel established"]
            IN  Await(runPendingMessages(L1, fr.peer), [fr EXCEPT !.pc = "runPendingMessages"])
      [] fr.pc = "runPendingMessages" -> deriveTail(L, fr)
      [] OTHER -> Ret(L, 0)

(* ensureSharedKey(friendId): the key, or {} for null *)
ensureSharedKey(L, friendId) ==
    IF HasSharedKey(L, friendId)
    THEN Ret(L, L.heap[L.sharedKeys[friendId]].sharedKey)
    ELSE Await(emitPublicKey(L, friendId),
               [BaseFrame EXCEPT !.fn = "ensureSharedKey", !.pc = "emitPublicKey",
                                 !.peer = friendId])

ensureSharedKeyResume(L, fr, v) == Ret(L, {})

(* handleSendMessage after ensureSharedKey returned sharedKey *)
handleSendAfterKey(L, friendId, text, sharedKey) ==
    IF sharedKey = {}
    THEN Ret([L EXCEPT !.status = "Waiting for shared key exchange",
                       !.waited = @ \cup {<<friendId, text>>}], 0)
    ELSE Park(L, [BaseFrame EXCEPT !.fn = "handleSendMessage", !.pc = "encryptWithKey",
                                   !.peer = friendId, !.text = text, !.skey = sharedKey])

(* handleSendMessage() with selectedFriendId = friendId and draft = text *)
handleSendMessage(L, friendId, text) ==
    Await(ensureSharedKey(L, friendId),
          [BaseFrame EXCEPT !.fn = "handleSendMessage", !.pc = "ensureSharedKey",
                            !.peer = friendId, !.text = text])

handleSendMessageResume(L, fr, v) ==
    IF fr.pc = "ensureSharedKey"
    THEN handleSendAfterKey(L, fr.peer, fr.text, v)
    ELSE LET cipher == Encrypt(fr.skey, fr.text, L.nextMid) IN
         IF ~FitsCarrier(cipher.chars)
         THEN Ret([L EXCEPT !.status = "Failed to send secure message"], 0)
         ELSE LET L1 == Emit(L, "secure-message",
                             [toUserId |-> fr.peer, imageDataUrl |-> Embed(cipher),
                              iv |-> cipher.iv, mid |-> L.nextMid], 0)
                  L2 == pushMessage(L1, fr.peer,
                                    [from |-> "me", text |-> fr.text,
                                     status |-> "sent", mid |-> L.nextMid])
              IN  Ret([L2 EXCEPT !.status = "Encrypted message sent via image",
                                 !.nextMid = @ + 1], 0)

(* the awaited operation of the top frame completes *)
FrameResume(L, fr, v) ==
    CASE fr.fn = "ensureDHState" -> ensureDHStateResume(L, fr, v)
      [] fr.fn = "emitPublicKey" -> emitPublicKeyResume(L, fr, v)
      [] fr.fn = "decryptIncoming" -> decryptIncomingResume(L, fr, v)
      [] fr.fn = "runPendingMessages" -> runPendingMessagesResume(L, fr, v)
      [] fr.fn = "deriveSharedSecret" -> deriveSharedSecretResume(L, fr, v)
      [] fr.fn = "ensureSharedKey" -> ensureSharedKeyResume(L, fr, v)
      [] OTHER -> handleSendMessageResume(L, fr, v)

(* resume the top frame with v and let each caller whose callee returned  *)
(* continue, until one suspends again or the whole call has ended         *)
RECURSIVE Continue(_, _, _)

(* the top frame ran on with outcome r; rest are the frames of its callers *)
Unwind(r, rest) ==
    IF r.throw THEN r
    ELSE IF Suspended(r) THEN [r EXCEPT !.stack = rest \o @]
    ELSE Continue(r.L, rest, r.val)

Continue(L, stack, v) ==
    IF stack = <<>> THEN Ret(L, v)
    ELSE Unwind(FrameResume(L, stack[Len(stack)], v), SubSeq(stack, 1, Len(stack) - 1))

Remove(q, i) == SubSeq(q, 1, i - 1) \o SubSeq(q, i + 1, Len(q))

(* a new handler call of client c ran up to its first suspension *)
Started(c, r) ==
    /\ stimuli[c] < MaxStimuli
    /\ stimuli' = [stimuli EXCEPT ![c] = @ + 1]
    /\ tasks' = [tasks EXCEPT ![c] = IF Suspended(r) THEN Append(@, r.stack) ELSE @]
    /\ Commit(c, r.L)
    /\ UNCHANGED <<token, socketRef, sockOwner, closed, logins>>

(* handleLogin succeeded; useEffect([token]) creates the socket *)
Login(c) ==
    /\ ~token[c]
    /\ logins[c] < MaxLogins
    /\ logins' = [logins EXCEPT ![c] = @ + 1]
    /\ token' = [token EXCEPT ![c] = TRUE]
    /\ LET s == Cardinality(DOMAIN outbox) + 1 IN
        /\ outbox' = MapSet(outbox, s, <<>>)
        /\ sockOwner' = MapSet(sockOwner, s, c)
        /\ socketRef' = [socketRef EXCEPT ![c] = s]
    /\ status' = [status EXCEPT ![c] = "Welcome"]
    /\ UNCHANGED <<heap, sharedKeys, pendingMessagesRef, threadsRef, tasks, closed,
                   nextKey, nextMid, stimuli, waited, held, extracted, lastError>>

(* logout() *)
logout(c) ==
    /\ token[c]
    /\ closed' = IF socketRef[c] = 0 THEN closed ELSE closed \cup {socketRef[c]}
    /\ socketRef' = [socketRef EXCEPT ![c] = 0]
    /\ token' = [token EXCEPT ![c] = FALSE]
    /\ threadsRef' = [threadsRef EXCEPT ![c] = EmptyMap]
    /\ sharedKeys' = [sharedKeys EXCEPT ![c] = EmptyMap]
    /\ pendingMessagesRef' = [pendingMessagesRef EXCEPT ![c] = EmptyMap]
    /\ status' = [status EXCEPT ![c] = "Logged out"]
    /\ waited' = [waited EXCEPT ![c] = {}]
    /\ held' = [held EXCEPT ![c] = <<>>]
    /\ extracted' = [extracted EXCEPT ![c] = <<>>]
    /\ UNCHANGED <<heap, tasks, outbox, sockOwner, nextKey, nextMid, stimuli, logins,
                   lastError>>

(* useEffect([friends]): friends.forEach((friend) => void emitPublicKey(friend.id)) *)
RECURSIVE EffectCalls(_, _)

(* the call for one friend had outcome e, the calls for the others more *)
EffectJoin(e, more) ==
    [L |-> more.L, stacks |-> (IF Suspended(e) THEN <<e.stack>> ELSE <<>>) \o more.stacks]

EffectRest(e, rest) == EffectJoin(e, EffectCalls(e.L, rest))

EffectCalls(L, todo) ==
    IF todo = {} THEN [L |-> L, stacks |-> <<>>]
    ELSE LET f == CHOOSE x \in todo : TRUE
         IN  EffectRest(emitPublicKey(L, f), todo \ {f})

(* the calls of one effect run ended as r *)
Spawned(c, r) ==
    /\ tasks' = [tasks EXCEPT ![c] = @ \o r.stacks]
    /\ Commit(c, r.L)

FriendsEffect(c) ==
    /\ token[c]
    /\ friends[c] # {}
    /\ stimuli[c] < MaxStimuli
    /\ stimuli' = [stimuli EXCEPT ![c] = @ + 1]
    /\ Spawned(c, EffectCalls(Local(c), friends[c]))
    /\ UNCHANGED <<token, socketRef, sockOwner, closed, logins>>

(* socket.on('friend-accepted', ({ id }) => { ...; emitPublicKey(id) }) *)
OnFriendAccepted(c, id) ==
    /\ socketRef[c] # 0
    /\ Started(c, emitPublicKey(Local(c), id))

(* socket.on('dh-public', handleDhPayload) *)
handleDhPayload(c, data) ==
    /\ socketRef[c] # 0
    /\ Started(c, deriveSharedSecret(Local(c), data.from, data.publicKey))

(* socket.on('secure-message', handleIncomingPayload) *)
handleIncomingPayload(c, payload) ==
    /\ socketRef[c] # 0
    /\ Started(c, decryptIncoming(Local(c), payload))

(* the user sends text to the selected friend *)
UserSend(c, friendId, text) ==
    /\ token[c]
    /\ friendId \in friends[c]
    /\ Started(c, handleSendMessage(Local(c), friendId, text))

(* the i-th suspended call of client c ran on with outcome r *)
Stepped(c, i, r) ==
    /\ tasks' = [tasks EXCEPT ![c] = IF Suspended(r) THEN [@ EXCEPT ![i] = r.stack]
                                     ELSE Remove(@, i)]
    /\ Commit(c, r.L)

(* the operation awaited by the i-th suspended call of client c completes *)
TaskStep(c, i) ==
    /\ i \in 1..Len(tasks[c])
    /\ \E r \in {Continue(Local(c), tasks[c][i], 0)} : Stepped(c, i, r)
    /\ UNCHANGED <<token, socketRef, sockOwner, closed, stimuli, logins>>

(* ------------------------------------------------------------------ *)
(* ClientSpec: one client (A) with friend B, the relay and B played by *)
(* the environment                                                     *)
(* ------------------------------------------------------------------ *)
PeerKeys == {10}

(* what the relay can hand to the client's handlers *)
EnvDhData == [from : {"B"}, publicKey : PeerKeys \cup {0}]

EnvCiphers == {Encrypt(DeriveSharedKey(k, p), t, 1) : k \in {1, 2}, p \in PeerKeys, t \in Texts}

EnvSmPayload(cipher) ==
    [from |-> "B", toUserId |-> "A", imageDataUrl |-> Embed(cipher), iv |-> cipher.iv,
     mid |-> nextMid]

EnvSecureMessage(c, cipher) ==
    /\ socketRef[c] # 0
    /\ Started(c, decryptIncoming([Local(c) EXCEPT !.nextMid = @ + 1], EnvSmPayload(cipher)))

ClientSpecInit ==
    /\ ClientInit
    /\ RelayIdle
    /\ friends = [u \in Users |-> Users \ {u}]
    /\ incomingRequests = [u \in Users |-> {}]

ClientLogin == Login("A") /\ UNCHANGED <<serverVars, netVars, codecVars>>

ClientLogout == logout("A") /\ UNCHANGED <<serverVars, netVars, codecVars>>

ClientFriendsEffect == FriendsEffect("A") /\ UNCHANGED <<serverVars, netVars, codecVars>>

ClientFriendAccepted ==
    /\ \E id \in friends["A"] : OnFriendAccepted("A", id)
    /\ UNCHANGED <<serverVars, netVars, codecVars>>

ClientDhPublic ==
    /\ \E data \in EnvDhData : handleDhPayload("A", data)
    /\ UNCHANGED <<serverVars, netVars, codecVars>>

ClientSecureMessage ==
    /\ \E cipher \in EnvCiphers : EnvSecureMessage("A", cipher)
    /\ UNCHANGED <<serverVars, netVars, codecVars>>

ClientSend ==
    /\ \E text \in Texts : UserSend("A", "B", text)
    /\ UNCHANGED <<serverVars, netVars, codecVars>>

ClientTaskStep ==
    /\ \E i \in 1..Len(tasks["A"]) : TaskStep("A", i)
    /\ UNCHANGED <<serverVars, netVars, codecVars>>

ClientNext ==
    \/ ClientLogin
    \/ ClientLogout
    \/ ClientFriendsEffect
    \/ ClientFriendAccepted
    \/ ClientDhPublic
    \/ ClientSecureMessage
    \/ ClientSend
    \/ ClientTaskStep

ClientSpec == ClientSpecInit /\ [][ClientNext]_vars

(* ------------------------------------------------------------------ *)
(* SystemSpec: the clients of A and B, mutual friends, and the relay   *)
(* ------------------------------------------------------------------ *)
SeenOf(s) == IF MapHas(seen, s) THEN seen[s] ELSE 0

TakenOf(s) == IF MapHas(taken, s) THEN taken[s] ELSE 0

SystemInit == ClientSpecInit

SysLogin == (\E c \in Users : Login(c)) /\ UNCHANGED <<serverVars, netVars, codecVars>>

(* the relay accepts a socket a client created (its token is in sessions) *)
SysConnection ==
    /\ \E s \in (DOMAIN outbox) \ (DOMAIN sockUser \cup closed) :
          /\ ConnectionOf(s, sockOwner[s])
          /\ UNCHANGED <<friends, incomingRequests, seqNo, accepted, refused>>
    /\ UNCHANGED <<clientVars, netVars, codecVars>>

(* the relay handles the next event a client emitted on socket s *)
SysRelay ==
    /\ \E s \in live :
          /\ TakenOf(s) < Len(outbox[s])
          /\ taken' = MapSet(taken, s, TakenOf(s) + 1)
          /\ LET e == outbox[s][TakenOf(s) + 1] IN
             IF e.event = "dh-public" THEN OnDhPublic(s, e.payload)
             ELSE OnSecureMessage(s, e.payload)
    /\ UNCHANGED <<clientVars, seen, offlineSends, codecVars>>

(* the client's socket hands it the next event the relay emitted *)
SysDeliver ==
    /\ \E c \in Users :
          LET s == socketRef[c] IN
          /\ stimuli[c] < MaxSysStimuli
          /\ s \in live
          /\ SeenOf(s) < Len(emitted[s])
          /\ seen' = MapSet(seen, s, SeenOf(s) + 1)
          /\ LET m == emitted[s][SeenOf(s) + 1] IN
             CASE m.event = "dh-public" -> handleDhPayload(c, m.payload)
               [] m.event = "secure-message" -> handleIncomingPayload(c, m.payload)
               [] OTHER -> OnFriendAccepted(c, m.payload.id)
    /\ UNCHANGED <<serverVars, taken, offlineSends, codecVars>>

SysFriendsEffect ==
    /\ \E c \in Users : stimuli[c] < MaxSysStimuli /\ FriendsEffect(c)
    /\ UNCHANGED <<serverVars, netVars, codecVars>>

SysSend ==
    /\ \E text \in Texts :
          /\ stimuli["A"] < MaxSysStimuli
          /\ UserSend("A", "B", text)
          /\ offlineSends' = IF MapHas(socketsByUser, "B") THEN offlineSends
                              ELSE offlineSends \cup {<<"A", "B", text>>}
    /\ UNCHANGED <<serverVars, seen, taken, codecVars>>

SysTaskStep ==
    /\ \E c \in Users : \E i \in 1..Len(tasks[c]) : TaskStep(c, i)
    /\ UNCHANGED <<serverVars, netVars, codecVars>>

SystemNext ==
    \/ SysLogin
    \/ SysConnection
    \/ SysRelay
    \/ SysDeliver
    \/ SysFriendsEffect
    \/ SysSend
    \/ SysTaskStep

SystemSpec == SystemInit /\ [][SystemNext]_vars

(* ------------------------------------------------------------------ *)
(* ReceiveSpec: client A, in one session, receiving what was encrypted *)
(* under the key of one of its key pairs and what is no image          *)
(* ------------------------------------------------------------------ *)
NotAnImage == [text |-> "", key |-> {}, iv |-> 1, chars |-> -1]

(* a ciphertext under the key of A's second key pair, and what is no image *)
ReceiveCiphers == {Encrypt(DeriveSharedKey(2, p), "hi", 1) : p \in PeerKeys} \cup {NotAnImage}

ReceiveSecureMessage ==
    /\ \E cipher \in ReceiveCiphers : EnvSecureMessage("A", cipher)
    /\ UNCHANGED <<serverVars, netVars, codecVars>>

(* B's announce arrives, as long as A holds no shared key for B *)
ReceiveDhPublic ==
    /\ ~HasSharedKey(Local("A"), "B")
    /\ \E k \in PeerKeys : handleDhPayload("A", [from |-> "B", publicKey |-> k])
    /\ UNCHANGED <<serverVars, netVars, codecVars>>

ReceiveNext ==
    \/ ClientLogin
    \/ ReceiveDhPublic
    \/ ReceiveSecureMessage
    \/ ClientTaskStep

ReceiveSpec == ClientSpecInit /\ [][ReceiveNext]_vars

(* ------------------------------------------------------------------ *)
(* HandshakeSpec: the clients of A and B and the relay, with A logging  *)
(* out and in again, under the fairness the event loops give: an        *)
(* awaited operation completes, a socket connects, the relay handles    *)
(* what it received and a connected socket hands over what was emitted  *)
(* ------------------------------------------------------------------ *)
(* a handler call of client c the socket started ran up to its first suspension *)
Handled(c, r) ==
    /\ tasks' = [tasks EXCEPT ![c] = IF Suspended(r) THEN Append(@, r.stack) ELSE @]
    /\ Commit(c, r.L)
    /\ UNCHANGED <<token, socketRef, sockOwner, closed, logins, stimuli>>

(* client c is logged in and the relay has its socket *)
Connected(c) == token[c] /\ socketRef[c] \in live

(* B logs in; A logs in once B is connected *)
HsLogin ==
    /\ \E c \in Users : (c = "A" => Connected("B")) /\ Login(c)
    /\ UNCHANGED <<serverVars, netVars, codecVars>>

(* A logs out when both clients are at rest and the relay has handled     *)
(* what they emitted; the relay sees the socket close before A is back    *)
HsLogout ==
    /\ \A c \in Users : tasks[c] = <<>>
    /\ \A s \in DOMAIN outbox : s \in live /\ TakenOf(s) = Len(outbox[s])
    /\ logout("A")
    /\ IF socketRef["A"] \in live THEN Disconnect(socketRef["A"]) ELSE UNCHANGED serverVars
    /\ UNCHANGED <<netVars, codecVars>>

HsConnection == SysConnection

HsRelay == SysRelay

HsDeliver ==
    /\ \E c \in Users :
          LET s == socketRef[c] IN
          /\ s \in live
          /\ SeenOf(s) < Len(emitted[s])
          /\ seen' = MapSet(seen, s, SeenOf(s) + 1)
          /\ LET m == emitted[s][SeenOf(s) + 1] IN
             \E r \in {IF m.event = "dh-public"
                        THEN deriveSharedSecret(Local(c), m.payload.from, m.payload.publicKey)
                        ELSE decryptIncoming(Local(c), m.payload)} : Handled(c, r)
    /\ UNCHANGED <<serverVars, taken, offlineSends, codecVars>>

(* the friends of A, connected, are loaded *)
HsFriendsEffect ==
    /\ Connected("A")
    /\ stimuli["A"] < MaxSysStimuli
    /\ FriendsEffect("A")
    /\ UNCHANGED <<serverVars, netVars, codecVars>>

(* A, connected and without a key for B, sends "hi" to B *)
HsSend ==
    /\ Connected("A")
    /\ ~HasSharedKey(Local("A"), "B")
    /\ stimuli["A"] < MaxSysStimuli
    /\ UserSend("A", "B", "hi")
    /\ UNCHANGED <<serverVars, netVars, codecVars>>

HsTaskStep == SysTaskStep

HandshakeNext ==
    \/ HsLogin
    \/ HsLogout
    \/ HsConnection
    \/ HsRelay
    \/ HsDeliver
    \/ HsFriendsEffect
    \/ HsSend
    \/ HsTaskStep

HandshakeSpec ==
    /\ SystemInit
    /\ [][HandshakeNext]_vars
    /\ WF_vars(HsTaskStep)
    /\ WF_vars(HsConnection)
    /\ WF_vars(HsRelay)
    /\ WF_vars(HsDeliver)

(* ------------------------------------------------------------------ *)
(* SendSpec: client A sending drafts of any length to B                *)
(* ------------------------------------------------------------------ *)
(* drafts: the longest whose ciphertext fits the carrier and one a byte  *)
(* longer                                                                *)
Drafts == {"edge", "long"}

SendDraft ==
    /\ \E text \in Drafts : UserSend("A", "B", text)
    /\ UNCHANGED <<serverVars, netVars, codecVars>>

SendNext ==
    \/ ClientLogin
    \/ ReceiveDhPublic
    \/ SendDraft
    \/ ClientTaskStep

SendSpec == ClientSpecInit /\ [][SendNext]_vars

(* ------------------------------------------------------------------ *)
(* CodecSpec: one text embedded, the image handed to extract as it is, *)
(* with one blue LSB flipped, or replaced by an image of another maker *)
(* ------------------------------------------------------------------ *)
(* the most bytes a text may encode to and still fit the canvas *)
UsableBytes == (CANVAS_SIZE * CANVAS_SIZE - LENGTH_PREFIX_BITS) \div 8

ShortTexts == UNION {[1..n -> CodeUnits] : n \in 0..MaxTextLen}

(* texts at and just over the capacity, of one-byte and three-byte units *)
LongTexts ==
    {Repeat(104, UsableBytes), Repeat(104, UsableBytes + 1),
     Repeat(65533, (UsableBytes \div 3) + 1)}

(* the pixels whose blue LSB the transport may flip: the sign bit of the  *)
(* length, its low bits and the first payload bytes, and the last pixel   *)
FlipPixels == {0} \cup (22..MaxFlipPixel) \cup {CANVAS_SIZE * CANVAS_SIZE - 1}

(* images of other makers: 6x6 ones declaring one byte, which they have  *)
(* no room for, and an 8x5 one whose one byte is 0xFF                     *)
ForeignImages ==
    {[width |-> 6, height |-> 6, ones |-> {31}],
     [width |-> 6, height |-> 6, ones |-> {31, 32, 33, 34, 35}],
     [width |-> 8, height |-> 5, ones |-> {31} \cup (32..39)]}

CodecInit ==
    /\ ServerInit
    /\ ClientIdle
    /\ stegoText \in ShortTexts \cup LongTexts
    /\ stegoImage = NotRun
    /\ imageDataUrl = NoPixels
    /\ tamper = Untouched
    /\ extractedText = NotRead
    /\ imageData = NoData

CodecEmbed ==
    /\ stegoImage = NotRun
    /\ stegoImage' = embedTextInImage(stegoText)
    /\ imageData' = EmbedData(textToBits(stegoText))
    /\ UNCHANGED <<stegoText, imageDataUrl, tamper, extractedText>>
    /\ UNCHANGED <<serverVars, clientVars, netVars>>

CodecDeliver ==
    /\ stegoImage # NotRun /\ ~stegoImage.threw
    /\ imageDataUrl = NoPixels
    /\ imageDataUrl' = stegoImage.url
    /\ tamper' = Untouched
    /\ UNCHANGED <<stegoText, stegoImage, extractedText, imageData>>
    /\ UNCHANGED <<serverVars, clientVars, netVars>>

CodecFlip ==
    /\ stegoImage # NotRun /\ ~stegoImage.threw
    /\ imageDataUrl = NoPixels
    /\ \E i \in FlipPixels :
          /\ imageDataUrl' = FlipBit(stegoImage.url, i)
          /\ tamper' = i
    /\ UNCHANGED <<stegoText, stegoImage, extractedText, imageData>>
    /\ UNCHANGED <<serverVars, clientVars, netVars>>

CodecForeign ==
    /\ imageDataUrl = NoPixels
    /\ imageDataUrl' \in ForeignImages
    /\ tamper' = Foreign
    /\ UNCHANGED <<stegoText, stegoImage, extractedText, imageData>>
    /\ UNCHANGED <<serverVars, clientVars, netVars>>

CodecExtract ==
    /\ imageDataUrl # NoPixels
    /\ extractedText = NotRead
    /\ extractedText' = extractTextFromImage(imageDataUrl)
    /\ UNCHANGED <<stegoText, stegoImage, imageDataUrl, tamper, imageData>>
    /\ UNCHANGED <<serverVars, clientVars, netVars>>

CodecNext ==
    \/ CodecEmbed
    \/ CodecDeliver
    \/ CodecFlip
    \/ CodecForeign
    \/ CodecExtract

CodecSpec == CodecInit /\ [][CodecNext]_vars

(* ------------------------------------------------------------------ *)
(* Spec: the relay alone, driven by arbitrary clients                  *)
(* ------------------------------------------------------------------ *)
Connection(u) ==
    /\ Cardinality(DOMAIN sockUser) < MaxSockets
    /\ ConnectionOf(Cardinality(DOMAIN sockUser) + 1, u)

Init == ServerInit /\ ClientInit

RelayConnection ==
    /\ \E u \in Users : Connection(u)
    /\ UNCHANGED <<friends, incomingRequests, seqNo, accepted, refused, clientVars, netVars, codecVars>>

RelayDisconnect == (\E s \in live : Disconnect(s)) /\ UNCHANGED <<clientVars, netVars, codecVars>>

RelayDhPublic ==
    /\ seqNo < MaxEvents
    /\ \E s \in live, data \in DhPayloads : OnDhPublic(s, data)
    /\ UNCHANGED <<clientVars, netVars, codecVars>>

RelaySecureMessage ==
    /\ seqNo < MaxEvents
    /\ \E s \in live, payload \in SmPayloads : OnSecureMessage(s, payload)
    /\ UNCHANGED <<clientVars, netVars, codecVars>>

RelayFriendAccept ==
    /\ \E u \in Users, r \in Users : FriendAccept(u, r)
    /\ UNCHANGED <<clientVars, netVars, codecVars>>

Next ==
    \/ RelayConnection
    \/ RelayDisconnect
    \/ RelayDhPublic
    \/ RelaySecureMessage
    \/ RelayFriendAccept

Spec == Init /\ [][Next]_vars

(* ------------------------------------------------------------------ *)
(* AuthSpec: the relay of two friends, with handshakes of any token    *)
(* ------------------------------------------------------------------ *)
(* a socket handshake carrying tok: io.use, then io.on('connection') *)
(* only if io.use called next() without an error                       *)
Handshake(tok) ==
    LET s == Cardinality(DOMAIN sockUser \cup refused) + 1 IN
    /\ Cardinality(DOMAIN sockUser \cup refused) < MaxSockets
    /\ IF ioUse(tok) = ""
       THEN /\ refused' = refused \cup {s}
            /\ UNCHANGED <<socketsByUser, undeliveredMessages, sockUser, live, emitted>>
       ELSE /\ ConnectionOf(s, ioUse(tok))
            /\ refused' = refused
    /\ UNCHANGED <<friends, incomingRequests, seqNo, accepted>>

AuthInit ==
    /\ friends = [u \in Users |-> Users \ {u}]
    /\ incomingRequests = [u \in Users |-> {}]
    /\ RelayIdle
    /\ ClientInit

AuthHandshake ==
    /\ \E tok \in HandshakeTokens : Handshake(tok)
    /\ UNCHANGED <<clientVars, netVars, codecVars>>

AuthNext ==
    \/ AuthHandshake
    \/ RelayDisconnect
    \/ RelayDhPublic
    \/ RelaySecureMessage

AuthSpec == AuthInit /\ [][AuthNext]_vars

(* ------------------------------------------------------------------ *)
(* Relay properties                                                    *)
(* ------------------------------------------------------------------ *)
RelayOf(q) == SelectSeq(q, LAMBDA m : m.event \in RelayEvents)

(* the ordinal of socket s among the connections of its user *)
SockEpoch(s) == Cardinality({t \in DOMAIN sockUser : t <= s /\ sockUser[t] = sockUser[s]})

(* the events emitted to s that were accepted while their target had no entry *)
StoredFor(s) == SelectSeq(RelayOf(emitted[s]), LAMBDA m : ~m.online)

Increasing(q) == \A i \in 1..(Len(q) - 1) : q[i].seq < q[i + 1].seq

RECURSIVE TotalLen(_, _)
TotalLen(f, S) ==
    IF S = {} THEN 0
    ELSE LET x == CHOOSE y \in S : TRUE
         IN  Len(RelayOf(f[x])) + TotalLen(f, S \ {x})

(* C1: the events accepted for a principal while it had no Presence       *)
(* Directory entry are emitted to the socket of its next connection, all   *)
(* of them, in the order of acceptance, each once; no later connection     *)
(* gets them again and none stays behind in the queue.                     *)
Thm_C1 ==
    /\ \A s \in DOMAIN sockUser :
          LET F == StoredFor(s) IN
          /\ \A i \in 1..Len(F) : F[i].to = sockUser[s] /\ F[i].epoch = SockEpoch(s) - 1
          /\ Increasing(F)
    /\ \A u \in DOMAIN undeliveredMessages :
          LET q == undeliveredMessages[u] IN
          /\ \A i \in 1..Len(q) : q[i].to = u /\ ~q[i].online /\ q[i].epoch = Connects(u)
          /\ Increasing(q)
    /\ TotalLen(emitted, DOMAIN emitted)
         + TotalLen(undeliveredMessages, DOMAIN undeliveredMessages) = accepted

Wit_C1 ==
    \E s \in DOMAIN sockUser, t \in DOMAIN sockUser :
        /\ s < t /\ sockUser[s] = sockUser[t]
        /\ Len(StoredFor(s)) >= 2

RelayUntouched ==
    /\ emitted' = emitted
    /\ undeliveredMessages' = undeliveredMessages
    /\ socketsByUser' = socketsByUser

(* C2: a 'dh-public' or 'secure-message' event whose toUserId is not in    *)
(* the sender's friends set changes no socket's emissions (the sender's    *)
(* included), no queue and no Presence Directory entry. Only steps that    *)
(* advance seqNo are looked at: every run of a relay handler advances it.  *)
Thm_C2 ==
    [][seqNo' = seqNo \/ \A s \in live :
         /\ \A d \in DhPayloads :
              d.toUserId \notin friends[sockUser[s]] => (RelayUntouched \/ ~OnDhPublic(s, d))
         /\ \A p \in SmPayloads :
              p.toUserId \notin friends[sockUser[s]] => (RelayUntouched \/ ~OnSecureMessage(s, p))
      ]_vars

Wit_C2 == seqNo > accepted /\ socketsByUser # EmptyMap /\ \E u \in Users : friends[u] # {}

(* q2 is q1 with one message, stamped n, added at the tail *)
TailAdded(q1, q2, n) ==
    /\ Len(q2) = Len(q1) + 1
    /\ SubSeq(q2, 1, Len(q1)) = q1
    /\ q2[Len(q2)].seq = n

DeliveredXorQueued(t) ==
    IF MapHas(socketsByUser, t)
    THEN /\ undeliveredMessages' = undeliveredMessages
         /\ DOMAIN emitted' = DOMAIN emitted
         /\ TailAdded(emitted[socketsByUser[t]], emitted'[socketsByUser[t]], seqNo')
         /\ \A x \in DOMAIN emitted \ {socketsByUser[t]} : emitted'[x] = emitted[x]
    ELSE /\ emitted' = emitted
         /\ DOMAIN undeliveredMessages' = DOMAIN undeliveredMessages \cup {t}
         /\ TailAdded(Bucket(t), undeliveredMessages'[t], seqNo')
         /\ \A x \in DOMAIN undeliveredMessages \ {t} :
               undeliveredMessages'[x] = undeliveredMessages[x]

(* C3: an accepted event is emitted at once to the target's handle, the    *)
(* queues unchanged, when the target has a Presence Directory entry, and   *)
(* otherwise appended at the tail of the target's queue, nothing emitted.  *)
(* Only steps that advance accepted, as every accepting run does, are     *)
(* looked at.                                                             *)
Thm_C3 ==
    [][accepted' = accepted \/ \A t \in Users :
         \/ DeliveredXorQueued(t)
         \/ \A s \in live :
              /\ \A d \in DhPayloads :
                   (d.toUserId = t /\ t \in friends[sockUser[s]]) => ~OnDhPublic(s, d)
              /\ \A p \in SmPayloads :
                   (p.toUserId = t /\ t \in friends[sockUser[s]]) => ~OnSecureMessage(s, p)
      ]_vars

Wit_C3 ==
    /\ \E s \in DOMAIN emitted : \E i \in 1..Len(emitted[s]) :
          emitted[s][i].event \in RelayEvents /\ emitted[s][i].online
    /\ \E u \in DOMAIN undeliveredMessages : undeliveredMessages[u] # <<>>

AuthenticFrom(q) ==
    \A i \in 1..Len(q) : q[i].event \in RelayEvents => q[i].payload.from = q[i].sender

(* C4: every relayed 'dh-public' and 'secure-message' event, delivered or  *)
(* queued, carries from = the id of the authenticated sender.              *)
CE_C4 ==
    /\ \A s \in DOMAIN emitted : AuthenticFrom(emitted[s])
    /\ \A u \in DOMAIN undeliveredMessages : AuthenticFrom(undeliveredMessages[u])


(* the socket of the latest connection of user u *)
LatestSock(u) == CHOOSE s \in DOMAIN sockUser :
    sockUser[s] = u /\ \A t \in DOMAIN sockUser : sockUser[t] = u => t <= s

(* C16: the Presence Directory entry of a principal stays mapped to its    *)
(* most recently registered handle while that handle is live; the          *)
(* disconnect of an earlier, replaced handle does not remove or change it. *)
CE_C16 ==
    \A u \in Users :
        (Connects(u) > 0 /\ LatestSock(u) \in live)
            => (MapHas(socketsByUser, u) /\ socketsByUser[u] = LatestSock(u))

(* in the emissions to socket s no event routed while s was registered     *)
(* comes ahead of an event flushed from the queue                          *)
StoredFirst(s) ==
    LET q == RelayOf(emitted[s]) IN
    \A i \in 1..Len(q) : \A j \in (i + 1)..Len(q) : ~(q[i].online /\ ~q[j].online)

(* C17: the queued events of a principal are all emitted to its new handle *)
(* in the step of the 'connection' handler itself: no step after it (a     *)
(* handler run for an event the principal sends on the new connection, or  *)
(* the routing of another sender's event) adds a queued event to the       *)
(* handle, and every event routed to the handle comes after the flushed    *)
(* ones.                                                                   *)
Thm_C17 ==
    /\ [](\A s \in DOMAIN sockUser : StoredFirst(s))
    /\ [][\A s \in DOMAIN sockUser : emitted'[s] = emitted[s] \/ StoredFor(s)' = StoredFor(s)]_vars

Wit_C17 ==
    \E s \in live :
        LET q == RelayOf(emitted[s]) IN
        \E i \in 1..Len(q) : \E j \in (i + 1)..Len(q) : ~q[i].online /\ q[j].online

QueueOnlyOffline == \A u \in DOMAIN socketsByUser : Bucket(u) = <<>>

(* C18: a principal with a Presence Directory entry has no undelivered     *)
(* events, so queued events exist only for principals without an entry;    *)
(* a disconnect removes the principal's entry and changes no queue.        *)
Thm_C18 ==
    /\ []QueueOnlyOffline
    /\ [][\A s \in live :
            Disconnect(s) => /\ ~MapHas(socketsByUser', sockUser[s])
                             /\ undeliveredMessages' = undeliveredMessages]_vars

Wit_C18 ==
    \E u \in Users, v \in Users :
        /\ Connects(u) > 0 /\ ~MapHas(socketsByUser, u) /\ Bucket(u) # <<>>
        /\ MapHas(socketsByUser, v) /\ StoredFor(socketsByUser[v]) # <<>>


(* a token io.use must reject: missing, not in sessions, or of a user   *)
(* that is not in users                                                  *)
BadToken(tok) ==
    \/ tok = ""
    \/ tok \notin {"tA", "tB", "tZ"}
    \/ tok = "tZ"

(* C15: a handshake whose token is missing, unknown or maps to a user    *)
(* that does not exist never gets a connection: the directory, the       *)
(* queues and every socket's emissions are unchanged by it (nothing is   *)
(* flushed), the socket never becomes a connected socket, so nothing is  *)
(* ever emitted to it and no handler routes an event from it.            *)
Thm_C15 ==
    /\ [](/\ refused \cap DOMAIN sockUser = {}
          /\ refused \cap live = {}
          /\ refused \cap DOMAIN emitted = {}
          /\ \A u \in DOMAIN socketsByUser : socketsByUser[u] \notin refused)
    /\ [][\A tok \in HandshakeTokens :
            (BadToken(tok) /\ Handshake(tok))
                => /\ RelayUntouched
                   /\ sockUser' = sockUser
                   /\ live' = live
                   /\ Cardinality(refused') = Cardinality(refused) + 1]_vars
    /\ [][seqNo' = seqNo
          \/ \A s \in refused : /\ \A d \in DhPayloads : ~OnDhPublic(s, d)
                                /\ \A p \in SmPayloads : ~OnSecureMessage(s, p)]_vars

(* a handshake was refused while a queue held messages and another       *)
(* socket was connected                                                  *)
Wit_C15 ==
    /\ refused # {}
    /\ \E u \in Users : Bucket(u) # <<>>
    /\ live # {}

(* ------------------------------------------------------------------ *)
(* Client properties                                                   *)
(* ------------------------------------------------------------------ *)
Idle(c) == tasks[c] = <<>>

KeyFor(c, friendId) == HasSharedKey(Local(c), friendId)

(* the events client c handed to any of its sockets *)
CipherSent(c, friendId, text) ==
    \E s \in DOMAIN outbox : \E i \in 1..Len(outbox[s]) :
        /\ sockOwner[s] = c
        /\ outbox[s][i].event = "secure-message"
        /\ outbox[s][i].payload.toUserId = friendId
        /\ Extract(outbox[s][i].payload.imageDataUrl).text = text

(* C6: a plaintext whose send ended with the waiting status is replayed    *)
(* once the peer's key is derived: when the client is at rest with a       *)
(* shared key for the target, a 'secure-message' carrying it was emitted.  *)
CE_C6 ==
    \A c \in Users, f \in Users, t \in Texts :
        (token[c] /\ Idle(c) /\ KeyFor(c, f) /\ <<f, t>> \in waited[c])
            => CipherSent(c, f, t)

(* the ids of q that are in the set S, in the order of q *)
Only(q, S) == SelectSeq(q, LAMBDA m : m \in S)

Range(q) == {q[i] : i \in 1..Len(q)}

(* C7: once a shared key is stored for a sender and no handler is running, *)
(* no held event of that sender is left in the pending-inbound buffer and  *)
(* every event held in this session went through extract exactly once, in *)
(* the order it was held.                                                  *)
CE_C7 ==
    \A c \in Users, f \in Users :
        (Idle(c) /\ KeyFor(c, f))
            => /\ ~MapHas(pendingMessagesRef[c], f) \/ pendingMessagesRef[c][f] = <<>>
               /\ Only(extracted[c], Range(held[c])) = held[c]

Announces(c, o) ==
    {x \in (DOMAIN outbox) \X (1..8) :
        /\ sockOwner[x[1]] = c
        /\ x[2] <= Len(outbox[x[1]])
        /\ outbox[x[1]][x[2]].event = "dh-public"
        /\ outbox[x[1]][x[2]].obj = o}

(* C8: at most one 'dh-public' is emitted per KeyExchangeState instance.   *)
CE_C8 ==
    \A c \in Users : \A o \in 1..Len(heap[c]) : Cardinality(Announces(c, o)) <= 1

(* C9: a deriveSharedSecret call rejected for a malformed peer key leaves  *)
(* the key-exchange-state map entry of that peer exactly as it was when    *)
(* the call was made.                                                      *)
CE_C9 ==
    \A c \in Users : lastError[c].failed => lastError[c].after = lastError[c].before

EmitsAnnounce(c, i) ==
    LET top == tasks[c][i][Len(tasks[c][i])] IN
    /\ top.fn = "emitPublicKey" /\ top.pc = "exportPublicKey"
    /\ socketRef[c] # 0

ViaEnsureSharedKey(stack) == \E j \in 1..Len(stack) : stack[j].fn = "ensureSharedKey"

(* C10: ensureSharedKey returns the stored key and emits nothing when a    *)
(* shared key is stored; otherwise the announce it runs emits a            *)
(* 'dh-public' only if this key-exchange state has not sent one yet.       *)
CE_C10 ==
    [][/\ \A text \in Texts :
            (UserSend("A", "B", text) /\ KeyFor("A", "B"))
                => /\ outbox' = outbox
                   /\ Len(tasks'["A"]) = Len(tasks["A"]) + 1
                   /\ LET fr == tasks'["A"][Len(tasks'["A"])][1] IN
                         /\ fr.pc = "encryptWithKey"
                         /\ fr.skey = heap["A"][sharedKeys["A"]["B"]].sharedKey
       /\ \A i \in 1..Len(tasks["A"]) :
            (TaskStep("A", i) /\ ViaEnsureSharedKey(tasks["A"][i]) /\ EmitsAnnounce("A", i))
                => Announces("A", tasks["A"][i][Len(tasks["A"][i])].obj) = {}
      ]_vars

SystemQuiet ==
    /\ \A c \in Users : Idle(c)
    /\ \A s \in DOMAIN outbox : s \in live /\ TakenOf(s) = Len(outbox[s])
    /\ \A s \in DOMAIN emitted : SeenOf(s) = Len(emitted[s])
    /\ \A u \in DOMAIN undeliveredMessages : undeliveredMessages[u] = <<>>

Received(c, friendId, text) ==
    /\ MapHas(threadsRef[c], friendId)
    /\ \E i \in 1..Len(threadsRef[c][friendId]) :
          /\ threadsRef[c][friendId][i].text = text
          /\ threadsRef[c][friendId][i].status = "received"

(* ------------------------------------------------------------------ *)
(* Codec properties                                                    *)
(* ------------------------------------------------------------------ *)
(* the number of bytes of text in UTF-8: one per code unit, one more for  *)
(* each unit from U+0080, one more for each from U+0800, and a surrogate  *)
(* pair is four bytes, not six                                            *)
Utf8Length(text) ==
    Len(text) + Cardinality({i \in 1..Len(text) : text[i] >= 128})
              + Cardinality({i \in 1..Len(text) : text[i] >= 2048})
              - 2 * Cardinality({i \in 1..(Len(text) - 1) :
                                    IsHighSurrogate(text[i]) /\ IsLowSurrogate(text[i + 1])})

(* 32 + 8 * len(P) for the payload P = stegoText *)
FrameBits == 32 + 8 * Utf8Length(stegoText)

Capacity == 256 * 256

(* C11: for every text whose frame fits the capacity, extract applied to  *)
(* the image embed returned gives the text back.                          *)
CE_C11 ==
    (extractedText # NotRead /\ tamper = Untouched /\ FrameBits <= Capacity)
        => (~extractedText.threw /\ extractedText.text = stegoText)

(* what embedTextInImage must have done for a frame of frameBits bits *)
EmbedDone(frameBits) ==
    /\ stegoImage.threw <=> (frameBits > Capacity)
    /\ stegoImage.threw => (stegoImage.canvas.ones = {} /\ stegoImage.url = NoPixels)
    /\ ~stegoImage.threw
          => /\ stegoImage.url = stegoImage.canvas
             /\ stegoImage.url.width * stegoImage.url.height = Capacity
             /\ 0 \notin stegoImage.url.ones
             /\ \A i \in 1..31 :
                   (i \in stegoImage.url.ones)
                       <=> (((frameBits - 32) \div 8) \div (2 ^ (31 - i))) % 2 = 1

(* C12: embed throws exactly when 32 + 8 * len(P) exceeds the capacity    *)
(* (so it succeeds when the frame fills the canvas exactly); when it      *)
(* throws, no pixel of the canvas was written and no image is returned;   *)
(* when it succeeds the image returned is the canvas with the frame in it.*)
Thm_C12 == stegoImage # NotRun => EmbedDone(FrameBits)

(* embed threw for a text one byte over the capacity *)
Wit_C12 == stegoImage.threw /\ FrameBits = Capacity + 8

(* the length the first 32 bits of the image at the receiver declare,     *)
(* read as an unsigned number; -1 when the sign bit makes it 2^31 or more *)
DeclaredLength ==
    IF 0 \in imageDataUrl.ones THEN -1
    ELSE bitsToNumber(SliceBits(imageDataUrl, 0, 32))

(* bytes is well-formed UTF-8: every byte is ASCII, starts a complete     *)
(* sequence or belongs to one                                             *)
WellFormed(bytes) ==
    \A i \in 1..Len(bytes) :
        \/ bytes[i] < 128
        \/ BytesNeeded(bytes[i]) > 0 /\ BytesSeen(bytes, i) = BytesNeeded(bytes[i])
        \/ IsContinuation(bytes[i]) /\ PartOfSequence(bytes, i)

(* C13: extract throws whenever the declared length n has 32 + 8n beyond  *)
(* the pixels of the image, and whenever the declared bytes are not       *)
(* well-formed UTF-8.                                                     *)
CE_C13 ==
    (extractedText # NotRead /\ DeclaredLength >= 0)
        => /\ (32 + 8 * DeclaredLength > imageDataUrl.width * imageDataUrl.height)
                 => extractedText.threw
           /\ ~WellFormed(PayloadBytes(imageDataUrl, DeclaredLength))
                 => extractedText.threw

(* C14: after the blue LSB of a pixel inside the frame of embed(P) was    *)
(* flipped, extract throws or returns a text other than P.                *)
CE_C14 ==
    (extractedText # NotRead /\ tamper >= 0 /\ tamper < FrameBits)
        => (extractedText.threw \/ extractedText.text # stegoText)

(* the i-th suspended call of c is a handleSendMessage about to encrypt  *)
(* and embed a draft whose base64 ciphertext needs more bits than the    *)
(* carrier has pixels                                                    *)
SendsOverCapacity(c, i) ==
    LET top == tasks[c][i][Len(tasks[c][i])] IN
    /\ top.fn = "handleSendMessage" /\ top.pc = "encryptWithKey"
    /\ 32 + 8 * (4 * ((ByteLen(top.text) + 16 + 2) \div 3)) > 256 * 256

(* C20: when the ciphertext handed to embed exceeds the carrier capacity, *)
(* the handleSendMessage call ends with the status 'Failed to send secure *)
(* message', emits nothing, appends nothing to any thread and leaves the  *)
(* key-exchange states and the pending buffer as they were.               *)
Thm_C20 ==
    [][\A i \in 1..Len(tasks["A"]) :
          (SendsOverCapacity("A", i) /\ TaskStep("A", i))
              => /\ status'["A"] = "Failed to send secure message"
                 /\ Len(tasks'["A"]) = Len(tasks["A"]) - 1
                 /\ outbox' = outbox
                 /\ threadsRef' = threadsRef
                 /\ heap' = heap
                 /\ sharedKeys' = sharedKeys
                 /\ pendingMessagesRef' = pendingMessagesRef]_vars

(* a send failed on capacity after the longest fitting draft was sent *)
Wit_C20 ==
    /\ status["A"] = "Failed to send secure message"
    /\ KeyFor("A", "B")
    /\ MapHas(threadsRef["A"], "B")
    /\ \E i \in 1..Len(threadsRef["A"]["B"]) : threadsRef["A"]["B"][i].text = "edge"

(* the i-th suspended call of c is a deriveSharedSecret whose            *)
(* deriveSharedKey is about to resolve                                   *)
Derives(c, i) ==
    LET top == tasks[c][i][Len(tasks[c][i])] IN
    top.fn = "deriveSharedSecret" /\ top.pc = "deriveSharedKey"

DerivingState(c, i) == tasks[c][i][Len(tasks[c][i])].obj

DerivingPeerKey(c, i) == tasks[c][i][Len(tasks[c][i])].pub

(* C22: the step in which a deriveSharedSecret call stores its result     *)
(* leaves in the state a shared key that is the derivation of the local   *)
(* key pair stored in that state and the peer key the call received.      *)
CE_C22 ==
    [][\A i \in 1..Len(tasks["A"]) :
          (Derives("A", i) /\ TaskStep("A", i))
              => \A o \in 1..Len(heap["A"]) : \A p \in 0..nextKey + 20 :
                    (o = DerivingState("A", i) /\ p = DerivingPeerKey("A", i))
                        => heap'["A"][o].sharedKey
                              = DeriveSharedKey(heap'["A"][o].keyPair, p)]_vars

(* C23: no key-exchange state gets more than one generated key pair: the *)
(* key pairs generated so far are at most as many as the states created. *)
CE_C23 == nextKey - 1 <= Len(heap["A"]) + Len(heap["B"])

(* the i-th suspended call of c is a decryptIncoming whose extract or     *)
(* decrypt is about to fail                                              *)
ReceiveFails(c, i) ==
    LET top == tasks[c][i][Len(tasks[c][i])] IN
    /\ top.fn = "decryptIncoming"
    /\ \/ top.pc = "extractTextFromImage" /\ top.payload.imageDataUrl.carrier.chars = -1
       \/ /\ top.pc = "decryptWithKey"
          /\ \/ top.payload.imageDataUrl.carrier.key # top.skey
             \/ top.payload.imageDataUrl.carrier.iv # top.payload.iv

FailingId(c, i) == tasks[c][i][Len(tasks[c][i])].payload.mid

FailingPeer(c, i) == tasks[c][i][Len(tasks[c][i])].peer

(* the ids of the payloads in the pending-inbound buffer of c *)
PendingIds(c) ==
    UNION {{pendingMessagesRef[c][f][k].mid : k \in 1..Len(pendingMessagesRef[c][f])} :
              f \in DOMAIN pendingMessagesRef[c]}

(* the ids of the messages in the threads of c *)
ThreadIds(c) ==
    UNION {{threadsRef[c][f][k].mid : k \in 1..Len(threadsRef[c][f])} :
              f \in DOMAIN threadsRef[c]}

(* the ids of the payloads the suspended decryptIncoming calls of c hold *)
InFlightIds(c) ==
    UNION {{tasks[c][i][j].payload.mid : j \in {k \in 1..Len(tasks[c][i]) :
                                                 tasks[c][i][k].fn = "decryptIncoming"}} :
              i \in 1..Len(tasks[c])}

(* the shared key stored for friendId, {} when there is none *)
StoredKey(c, friendId) ==
    IF MapHas(sharedKeys[c], friendId) THEN heap[c][sharedKeys[c][friendId]].sharedKey ELSE {}

(* C21: when extract or decrypt fails for a 'secure-message' processed    *)
(* with a shared key, the step that handles the failure leaves the event  *)
(* out of every thread and out of the pending buffer, no call holds it    *)
(* any more, and the shared key stored for the sender is the one stored   *)
(* before.                                                                *)
Thm_C21 ==
    [][\A i \in 1..Len(tasks["A"]) :
          (ReceiveFails("A", i) /\ TaskStep("A", i))
              => /\ FailingId("A", i) \notin ThreadIds("A")'
                 /\ FailingId("A", i) \notin PendingIds("A")'
                 /\ FailingId("A", i) \notin InFlightIds("A")'
                 /\ \A f \in Users :
                       f = FailingPeer("A", i) => StoredKey("A", f)' = StoredKey("A", f)]_vars

(* a received event went through extract and was dropped: no call is      *)
(* running, a key for B is stored and the event is in no thread           *)
Wit_C21 ==
    /\ Idle("A") /\ KeyFor("A", "B") /\ logins["A"] = 1
    /\ \E k \in 1..Len(extracted["A"]) : extracted["A"][k] \notin ThreadIds("A")
    /\ PendingIds("A") = {}

(* C24: when A and B both hold a shared key for each other and nothing   *)
(* is in flight, queued or suspended, the two keys are equal.            *)
CE_C24 ==
    (SystemQuiet /\ KeyFor("A", "B") /\ KeyFor("B", "A"))
        => StoredKey("A", "B") = StoredKey("B", "A")

(* C25: when A and B are both connected and a send of A ended waiting for *)
(* the key of B, then A and B come to hold a shared key for each other,   *)
(* unless one of the two sessions ends first.                             *)
CE_C25 ==
    (Connected("A") /\ Connected("B") /\ <<"B", "hi">> \in waited["A"])
        ~> ((KeyFor("A", "B") /\ KeyFor("B", "A")) \/ ~token["A"] \/ ~token["B"])

(* C26: a key-exchange state is marked as announced only if a            *)
(* 'dh-public' for it was handed to a socket.                             *)
CE_C26 ==
    \A c \in Users : \A o \in 1..Len(heap[c]) :
        heap[c][o].sentPublic => Announces(c, o) # {}

(* C27: while the client is logged out, its key-exchange map, its        *)
(* pending buffer and its threads are empty.                              *)
CE_C27 ==
    \A c \in Users :
        ~token[c] => /\ sharedKeys[c] = EmptyMap
                     /\ pendingMessagesRef[c] = EmptyMap
                     /\ threadsRef[c] = EmptyMap

(* the bytes embed had to assign for a frame of frameBits bits: the blue  *)
(* byte of each of the first frameBits pixels and no other byte, each     *)
(* with the seven upper bits of the background, its lowest bit being the  *)
(* bit the image carries in that pixel                                    *)
FrameWritten(frameBits) ==
    /\ DOMAIN imageData = {(4 * p) + 2 : p \in 0..(frameBits - 1)}
    /\ \A offset \in DOMAIN imageData : imageData[offset] \div 2 = 32 \div 2
    /\ stegoImage.url.ones = {offset \div 4 : offset \in {o \in DOMAIN imageData :
                                                             imageData[o] % 2 = 1}}

(* C28: embed assigns only the lowest bit of the blue byte of the pixels  *)
(* 0 .. 32 + 8 * len - 1: no red, green or alpha byte, no bit of the      *)
(* upper seven of a blue byte and no pixel from 32 + 8 * len on differs   *)
(* from the background, when embed has returned its image.                *)
Thm_C28 ==
    (stegoImage # NotRun /\ ~stegoImage.threw /\ imageDataUrl = NoPixels)
        => FrameWritten(FrameBits)

(* embed ran for a text and wrote a 1 into a blue byte *)
Wit_C28 ==
    /\ stegoImage # NotRun /\ ~stegoImage.threw
    /\ Len(stegoText) > 0
    /\ \E offset \in DOMAIN imageData : imageData[offset] = 33

(* C29: the 32 bits extract reads as the length prefix decode, most       *)
(* significant bit first, to a number that is never negative, and the     *)
(* prefix numberToBits makes of the byte length of a text decodes to it.  *)
CE_C29 ==
    /\ (extractedText # NotRead /\ imageDataUrl.width * imageDataUrl.height >= LENGTH_PREFIX_BITS)
          => bitsToNumber(SliceBits(imageDataUrl, 0, LENGTH_PREFIX_BITS)) >= 0
    /\ bitsToNumber(numberToBits(Utf8Length(stegoText), LENGTH_PREFIX_BITS))
          = Utf8Length(stegoText)

(* the i-th suspended call of c is a handleSendMessage about to encrypt   *)
(* and embed its draft                                                    *)
SendsDraft(c, i) ==
    LET top == tasks[c][i][Len(tasks[c][i])] IN
    top.fn = "handleSendMessage" /\ top.pc = "encryptWithKey"

DraftSent(c, i) == tasks[c][i][Len(tasks[c][i])].text

(* C30: a draft of n UTF-8 bytes is sent (a 'secure-message' carrying it  *)
(* is emitted and the status is that of a sent message) if and only if    *)
(* 4 * ceil((n + 16) / 3) <= 8188, that is n <= 6125; with n >= 6126 the  *)
(* send fails and nothing is emitted.                                     *)
Thm_C30 ==
    [][\A i \in 1..Len(tasks["A"]) :
          (SendsDraft("A", i) /\ TaskStep("A", i))
              => \A t \in Drafts :
                    t = DraftSent("A", i)
                        => /\ (ByteLen(t) <= 6125)
                                 <=> (4 * ((ByteLen(t) + 16 + 2) \div 3) <= 8188)
                           /\ IF ByteLen(t) <= 6125
                              THEN /\ status'["A"] = "Encrypted message sent via image"
                                   /\ outbox' # outbox
                                   /\ CipherSent("A", "B", t)'
                              ELSE /\ status'["A"] = "Failed to send secure message"
                                   /\ outbox' = outbox]_vars

(* the draft of 6125 bytes went out and the one of 6126 bytes did not *)
Wit_C30 ==
    /\ Idle("A")
    /\ CipherSent("A", "B", "edge")
    /\ ~CipherSent("A", "B", "long")
    /\ status["A"] = "Encrypted message sent via image"

ReceivedIds(c, friendId) ==
    LET thread == IF MapHas(threadsRef[c], friendId) THEN threadsRef[c][friendId] ELSE <<>>
        got == SelectSeq(thread, LAMBDA m : m.status = "received")
    IN  [i \in 1..Len(got) |-> got[i].mid]

Ascending(q) == \A i \in 1..(Len(q) - 1) : q[i] < q[i + 1]

(* C19: in a client's first session (before any logout), the received     *)
(* messages in its thread for a sender are in the order in which the      *)
(* client was handed their 'secure-message' events.                       *)
CE_C19 ==
    \A c \in Users, f \in Users : logins[c] <= 1 => Ascending(ReceivedIds(c, f))

(* C5: A sent "hi" to its mutual friend B while B was offline; once B has  *)
(* connected and nothing is in flight, queued or running any more, "hi"    *)
(* is in B's thread for A.                                                 *)
CE_C5 ==
    (SystemQuiet /\ <<"A", "B", "hi">> \in offlineSends /\ MapHas(socketsByUser, "B"))
        => Received("B", "A", "hi")
====
